---- MODULE Spec2Model ----
(***************************************************************************)
(* Model of the geographic-context generator.                              *)
(*   Variant A: generateGeoContext   (src/unnamed/part_000)                *)
(*   Variant B: GenerateGeoContext   (src/src/js/generateGeographicContext.js) *)
(* An async generator walks the temporary tree against the graph and       *)
(* yields one write per created node / attached BIM object; the            *)
(* orchestrator batches the writes and waits for the FileSystem registry.  *)
(***************************************************************************)
EXTENDS Integers, Sequences, FiniteSets, TLC

\* ------------------------------------------------------------------ bounds
\* Longest item list given to a run.
MaxItems == 2
\* Batch threshold. The source sets 300; the model scales it down so that
\* several flush cycles happen within MaxItems items.
MAX_NON_SYNCHRONIZED_NODES == 2
\* Number of runs executed one after the other on the same inputs.
MaxRuns == 2
\* Number of collaborator calls that may fail over the runs.
MaxFailures == 1
MaxRaceItems == 1

\* ------------------------------------------------------- program constants
PROGRESS_BAR_SIZE_GET_PROPS == 10
PROGRESS_BAR_SIZE_CREATE_TREE == 10
PROGRESS_BAR_SIZE_CREATE_GRAPH == 80

\* `undefined` (Array.prototype.find, variant A) / `null` (getChild, variant B)
NoNode == 0
\* The context node is the first node of the graph.
ContextId == 1

Names == {"a", "b"}

\* layout: types and relation names per depth, keys of the properties used.
\* JavaScript indexes from 0, sequences from 1: layout.types[depth] of the
\* source is layout.types[depth + 1] here.
layout ==
  [types     |-> <<"Building", "Floor">>,
   relations |-> <<"hasBuilding", "hasFloor">>,
   keys      |-> <<"building", "floor">>]

Depth == Len(layout.keys)

\* ---------------------------------------------------------------- doubles
\* progression.value is a JavaScript number, an IEEE 754 double, and
\* 80 * 300 / props.length need not be representable: divisions and additions
\* round to the nearest double, ties to even. A value is [e, m]: m the bits of
\* the significand, the first bit first, e the exponent of the first bit.
\* Zero and Infinity have no bit set.
SignificandBits == 53

Zeros(n) == [i \in 1..n |-> 0]

Zero == [e |-> -1023, m |-> Zeros(SignificandBits)]

Infinity == [e |-> 1024, m |-> Zeros(SignificandBits)]

RECURSIVE Pow2(_)
Pow2(k) == IF k = 0 THEN 1 ELSE 2 * Pow2(k - 1)

\* The e with 2^e <= n / d < 2^(e + 1), for n, d > 0.
RECURSIVE Exponent(_, _)
Exponent(n, d) ==
  IF n >= 2 * d THEN Exponent(n, 2 * d) + 1
  ELSE IF n < d THEN Exponent(2 * n, d) - 1
  ELSE 0

\* The element of a singleton; its use on {F(x) : x \in {v}} computes v once.
The(S) == CHOOSE x \in S : TRUE

\* The bits of the quotient r / den (r < den) after the binary point, taken
\* ChunkBits at a time, and what is left of r after them.
ChunkBits == 4

Bits(q, c) == [i \in 1..c |-> (q \div Pow2(c - i)) % 2]

RECURSIVE Quotient(_, _, _)
Quotient(r, den, chunks) ==
  IF chunks = 0 THEN [bits |-> <<>>, r |-> r]
  ELSE The({ [bits |-> Bits((r * Pow2(ChunkBits)) \div den, ChunkBits) \o rest.bits,
              r |-> rest.r] :
             rest \in {Quotient((r * Pow2(ChunkBits)) % den, den, chunks - 1)} })

\* The significand plus one unit in the last place (some bit of m is 0).
Succ(m) ==
  The({ [i \in 1..Len(m) |-> IF i < z THEN m[i] ELSE IF i = z THEN 1 ELSE 0] :
        z \in {i \in 1..Len(m) : m[i] = 0 /\ \A j \in (i + 1)..Len(m) : m[j] = 1} })

RoundUp(e, m) ==
  IF \A i \in 1..Len(m) : m[i] = 1
  THEN [e |-> e + 1, m |-> <<1>> \o Zeros(Len(m) - 1)]
  ELSE [e |-> e, m |-> Succ(m)]

\* Round to nearest, ties to even: e and m are the exponent and the first
\* bits of a quotient, r what is left of the division by den.
Nearest(e, m, r, den) ==
  IF 2 * r > den \/ (2 * r = den /\ m[Len(m)] = 1)
  THEN RoundUp(e, m)
  ELSE [e |-> e, m |-> m]

\* The double nearest to num / den, when 2^e <= num / den < 2^(e + 1).
Scaled(num, den, e) ==
  The({ Nearest(e, <<1>> \o q.bits, q.r, den) :
        q \in {Quotient(num - den, den, (SignificandBits - 1) \div ChunkBits)} })

\* The double nearest to n / d, for integers n, d >= 0 (n / 0 is Infinity).
Double(n, d) ==
  IF d = 0 THEN Infinity
  ELSE IF n = 0 THEN Zero
  ELSE The({ IF e >= 0 THEN The({ Scaled(n, y, e) : y \in {d * Pow2(e)} })
                       ELSE The({ Scaled(x, d, e) : x \in {n * Pow2(-e)} }) :
             e \in {Exponent(n, d)} })

\* The sum of two bit strings of the same length, the carry out dropped:
\* a carry enters position i when, to its right, a position where both bits
\* are set is reached through positions where one is.
Carry(a, b, i) ==
  IF \E j \in (i + 1)..Len(a) :
       /\ a[j] + b[j] = 2
       /\ \A k \in (i + 1)..(j - 1) : a[k] + b[k] = 1
  THEN 1 ELSE 0

BitSum(a, b) == [i \in 1..Len(a) |-> (a[i] + b[i] + Carry(a, b, i)) % 2]

\* The first SignificandBits bits of the sum s, from its first set bit (the
\* first or the second), rounded on the bits that follow; the second bit of s
\* has the exponent e.
Normalised(s, e) ==
  The({ IF /\ Len(s) >= f + SignificandBits /\ s[f + SignificandBits] = 1
           /\ \/ s[f + SignificandBits - 1] = 1
              \/ \E i \in (f + SignificandBits + 1)..Len(s) : s[i] = 1
        THEN RoundUp(e + 2 - f, SubSeq(s, f, f + SignificandBits - 1))
        ELSE [e |-> e + 2 - f, m |-> SubSeq(s, f, f + SignificandBits - 1)] :
        f \in {IF s[1] = 1 THEN 1 ELSE 2} })

\* hi + lo for doubles with hi.e >= lo.e: the significands are aligned on the
\* exponent of hi and added exactly, then the sum is rounded.
Aligned(hi, lo) ==
  The({ Normalised(s, hi.e) :
        s \in { BitSum(a, b) : a \in {<<0>> \o hi.m \o Zeros(hi.e - lo.e)},
                               b \in {Zeros(hi.e - lo.e + 1) \o lo.m} } })

\* p + q in double arithmetic, for p, q >= 0.
DoubleAdd(p, q) ==
  The({ IF x = Infinity \/ y = Infinity THEN Infinity
        ELSE IF x = Zero THEN y
        ELSE IF y = Zero THEN x
        ELSE IF x.e >= y.e THEN Aligned(x, y) ELSE Aligned(y, x) :
        x \in {p}, y \in {q} })

\* x <= y for doubles x, y >= 0: by the exponents, then by the first bit
\* in which the significands differ.
Leq(x, y) ==
  \/ x.e < y.e
  \/ /\ x.e = y.e
     /\ \A i \in 1..SignificandBits :
          (x.m[i] = 1 /\ y.m[i] = 0) => \E j \in 1..(i - 1) : x.m[j] = 0 /\ y.m[j] = 1

\* p <= q.
DoubleLeq(p, q) == The({ Leq(x, y) : x \in {p}, y \in {q} })

\* ------------------------------------------------------------ input items
\* An item of the referencial: its dbId and the values of the properties it
\* has, in the order of layout.keys (an item lacking properties has fewer).
KeyPaths == {<<x, y>> : x \in Names, y \in Names}

RECURSIVE SeqsUpTo(_, _)
SeqsUpTo(S, n) ==
  IF n = 0 THEN {<<>>}
  ELSE LET shorter == SeqsUpTo(S, n - 1)
       IN shorter \cup {Append(s, x) : s \in {t \in shorter : Len(t) = n - 1}, x \in S}

Items(paths) == [i \in 1..Len(paths) |-> [dbId |-> i, properties |-> paths[i]]]

\* hasProperties(referencial, keys).valid: the items that have every key.
hasProperties(referencial, keys) ==
  [valid |-> SelectSeq(referencial, LAMBDA it : Len(it.properties) = Len(keys))]

\* ---------------------------------------------------------- temporary tree
\* A Map is an ordered list of entries (insertion order), an Array a list of
\* items.
EmptyMap == [kind |-> "Map", entries |-> <<>>, items |-> <<>>]
EmptyArray == [kind |-> "Array", entries |-> <<>>, items |-> <<>>]
NoTree == [kind |-> "none", entries |-> <<>>, items |-> <<>>]

EntryIndex(entries, name) ==
  LET hits == {i \in 1..Len(entries) : entries[i].name = name}
  IN IF hits = {} THEN 0 ELSE CHOOSE i \in hits : \A j \in hits : i <= j

RECURSIVE TreeInsert(_, _, _)
TreeInsert(tree, keys, item) ==
  IF keys = <<>>
  THEN [tree EXCEPT !.items = Append(@, [dbId |-> item.dbId])]
  ELSE LET idx == EntryIndex(tree.entries, Head(keys))
           fresh == IF Len(keys) = 1 THEN EmptyArray ELSE EmptyMap
       IN IF idx = 0
          THEN [tree EXCEPT !.entries =
                  Append(@, [name |-> Head(keys),
                             value |-> TreeInsert(fresh, Tail(keys), item)])]
          ELSE [tree EXCEPT !.entries[idx].value =
                  TreeInsert(@, Tail(keys), item)]

RECURSIVE createTmpTreeFrom(_, _)
createTmpTreeFrom(tree, props) ==
  IF props = <<>> THEN tree
  ELSE createTmpTreeFrom(TreeInsert(tree, Head(props).properties, Head(props)),
                         Tail(props))

createTmpTree(props) == createTmpTreeFrom(EmptyMap, props)

\* -------------------------------------------------------------------- graph
\* graph[id] = [name, type, parent, rel]: node id is a child of parent under
\* relation rel.
ContextNode == [name |-> "context", type |-> "context", parent |-> 0, rel |-> "none"]

Node(name, type, parent, rel) ==
  [name |-> name, type |-> type, parent |-> parent, rel |-> rel]

ChildIds(g, parent, relationName) ==
  {i \in 1..Len(g) : g[i].parent = parent /\ g[i].rel = relationName}

\* Every order in which the resolver may return a set of children.
Orderings(S) ==
  {s \in [1..Cardinality(S) -> S] : \A i, j \in 1..Cardinality(S) : s[i] = s[j] => i = j}

\* Array.prototype.find / the for loop of getChild: the first child, in the
\* order returned, whose name is the searched one.
FindByName(g, children, name) ==
  LET hits == {i \in 1..Len(children) : g[children[i]].name = name}
  IN IF hits = {} THEN NoNode
     ELSE children[CHOOSE i \in hits : \A j \in hits : i <= j]

\* Mutant: the children are matched to the names by position.
getChildrenByNamesByPosition(g, children, nodeNames) ==
  [k \in 1..Len(nodeNames) |-> IF k <= Len(children) THEN children[k] ELSE NoNode]

\* Variant A: one getChildren call, then one find per name.
getChildrenByNames(g, children, nodeNames) ==
  [k \in 1..Len(nodeNames) |-> FindByName(g, children, nodeNames[k])]

\* Mutant: the comparison of the names never succeeds.
getChildNeverFound(g, children, nodeName) == NoNode

\* Variant B: one getChildren call per name (children is that call's result).
getChild(g, children, nodeName) == FindByName(g, children, nodeName)

EntryNames(tree) == [k \in 1..Len(tree.entries) |-> tree.entries[k].name]

\* ----------------------------------------------------------- initial graphs
InitGraphs ==
  { <<ContextNode>>,
    <<ContextNode, Node("a", "Building", ContextId, "hasBuilding")>>,
    <<ContextNode, Node("b", "Building", ContextId, "hasBuilding"),
                   Node("a", "Building", ContextId, "hasBuilding"),
                   Node("a", "Floor", 3, "hasFloor")>>,
    <<ContextNode, Node("a", "Zone", ContextId, "hasZone"),
                   Node("b", "Building", ContextId, "hasBuilding")>> }

VARIABLES
  variant,      \* "A" or "B": which orchestrator runs
  referencial,  \* the items handed to the run
  props,        \* the items used (variant B: the valid ones, once filtered)
  tmpTree,      \* the temporary tree, NoTree until built
  graph,        \* the nodes of the graph
  attached,     \* BIM objects attached: <<parent, dbId>>
  bimContext,   \* the BIMObjectContext exists
  stack,        \* frames of the running generateGeoContextRec calls
  gen,          \* generator: "idle", "run", "yielding", "awaiting", "suspended", "done"
  pc,           \* orchestrator position
  pending,      \* calls not yet settled: <<call, number of the run that made it>>
  emitted,      \* every write issued, in order
  completed,    \* writes whose promise has resolved
  confirmed,    \* writes whose node is in FileSystem._objects
  promises,     \* the orchestrator's batch (indices into emitted)
  nodes,        \* waitForFileSystem's list of nodes still waited for
  flushed,      \* writes of batches whose waitForFileSystem has resolved
  progression,  \* progression.value
  calls,        \* collaborator calls made by the current run
  runNo,        \* number of the current run
  runStart,     \* Len(emitted) when the current run started
  graphAtStart, \* graph when the current run started
  afterRun1,    \* graph and attachments when run 1 completed
  graph0,       \* graph before the first run
  failure,      \* the failure that aborted the current run, "none" otherwise
  outcomes,     \* how the earlier runs ended: "done" or "failed"
  other         \* the state of a second, concurrent run while the first acts

vars ==
  <<variant, referencial, props, tmpTree, graph, attached, bimContext, stack,
    gen, pc, pending, emitted, completed, confirmed, promises, nodes, flushed,
    progression, calls, runNo, runStart, graphAtStart, afterRun1, graph0,
    failure, outcomes, other>>

\* Calls made by a run: getChildren, createNode/addChildInContext,
\* addBIMObject, getContext, hasProperties; rec counts the calls of the
\* generator function itself.
NoCalls ==
  [lookup |-> 0, create |-> 0, attach |-> 0, getContext |-> 0, filter |-> 0, rec |-> 0]

\* The variables of one run, as a record (the other run of a concurrent pair).
NoRun == [active |-> FALSE]

Init ==
  /\ variant \in {"A", "B"}
  /\ \E paths \in SeqsUpTo(KeyPaths \cup {<<>>}, MaxItems) :
       /\ variant = "A" => \A i \in 1..Len(paths) : Len(paths[i]) = Depth
       /\ referencial = Items(paths)
  /\ props = IF variant = "A" THEN referencial ELSE <<>>
  /\ tmpTree = NoTree
  /\ graph \in InitGraphs
  /\ attached = {}
  /\ bimContext = FALSE
  /\ stack = <<>>
  /\ gen = "idle"
  /\ pc = "start"
  /\ pending = {}
  /\ emitted = <<>>
  /\ completed = {}
  /\ confirmed = {}
  /\ promises = <<>>
  /\ nodes = <<>>
  /\ flushed = {}
  /\ progression = Double(0, 1)
  /\ calls = NoCalls
  /\ runNo = 1
  /\ runStart = 0
  /\ graphAtStart = graph
  /\ afterRun1 = [graph |-> <<>>, attached |-> {}]
  /\ graph0 = graph
  /\ failure = "none"
  /\ outcomes = <<>>
  /\ other = NoRun


\* ------------------------------------------------- generateGeoContextRec
\* A frame is one running call of the generator function: its parent node,
\* the (sub)tree it walks, its depth, the children found by the lookup, the
\* position of its loop and the child created for the current entry.
Frame(parent, children, depth) ==
  [parent |-> parent, children |-> children, depth |-> depth,
   found |-> <<>>, i |-> 1,
   phase |-> IF children.kind = "Map" THEN "lookup" ELSE "iter",
   child |-> NoNode]

Top == stack[Len(stack)]

SetTop(f) == [stack EXCEPT ![Len(stack)] = f]

\* Mutant: the generator runs ahead of the loop that consumes it.
RunningEager == gen \in {"run", "suspended"} /\ stack # <<>>

\* The generator runs only when the for await loop has asked for a value.
Running == pc = "loop" /\ gen = "run" /\ stack # <<>>

Write(kind, node, parent, dbId) ==
  [kind |-> kind, node |-> node, parent |-> parent, dbId |-> dbId, run |-> runNo]

\* The promise the running call has just yielded: its latest write.
LastWrite ==
  LET own == {k \in 1..Len(emitted) : emitted[k].run = runNo}
  IN CHOOSE k \in own : \A j \in own : j <= k

\* Variant A: await getChildrenByNames(parent, children.keys(), relation).
GenLookupA ==
  /\ Running /\ variant = "A"
  /\ Top.children.kind = "Map" /\ Top.phase = "lookup"
  /\ \E order \in Orderings(ChildIds(graph, Top.parent, layout.relations[Top.depth + 1])) :
       stack' = SetTop([Top EXCEPT
                  !.found = getChildrenByNames(graph, order, EntryNames(Top.children)),
                  !.phase = "iter"])
  /\ calls' = [calls EXCEPT !.lookup = @ + 1]
  /\ UNCHANGED <<graph0, failure, outcomes, other, variant, referencial, props, tmpTree, graph, attached, bimContext,
                 gen, pc, pending, emitted, completed, confirmed, promises, nodes,
                 flushed, progression, runNo, runStart, graphAtStart, afterRun1>>

\* Variant B: await Promise.all of one getChild(parent, name, relation) per
\* entry; each getChild makes its own parent.getChildren call.
GenLookupB ==
  /\ Running /\ variant = "B"
  /\ Top.children.kind = "Map" /\ Top.phase = "lookup"
  /\ LET names == EntryNames(Top.children)
         kids == ChildIds(graph, Top.parent, layout.relations[Top.depth + 1])
     IN /\ \E orders \in [1..Len(names) -> Orderings(kids)] :
             stack' = SetTop([Top EXCEPT
                        !.found = [k \in 1..Len(names) |-> getChild(graph, orders[k], names[k])],
                        !.phase = "iter"])
        /\ calls' = [calls EXCEPT !.lookup = @ + Len(names)]
  /\ UNCHANGED <<graph0, failure, outcomes, other, variant, referencial, props, tmpTree, graph, attached, bimContext,
                 gen, pc, pending, emitted, completed, confirmed, promises, nodes,
                 flushed, progression, runNo, runStart, graphAtStart, afterRun1>>

\* The child was found: recurse into its subtree without yielding.
GenReuse ==
  /\ Running
  /\ Top.children.kind = "Map" /\ Top.phase = "iter"
  /\ Top.i <= Len(Top.found)
  /\ Top.found[Top.i] # NoNode
  /\ stack' = Append(SetTop([Top EXCEPT !.i = @ + 1]),
                     Frame(Top.found[Top.i], Top.children.entries[Top.i].value,
                           Top.depth + 1))
  /\ calls' = [calls EXCEPT !.rec = @ + 1]
  /\ UNCHANGED <<graph0, failure, outcomes, other, variant, referencial, props, tmpTree, graph, attached, bimContext,
                 gen, pc, pending, emitted, completed, confirmed, promises, nodes,
                 flushed, progression, runNo, runStart, graphAtStart, afterRun1>>

\* The child was not found: create the node, add it to the parent in the
\* context and yield the promise of addChildInContext.
GenCreate ==
  /\ Running
  /\ Top.children.kind = "Map" /\ Top.phase = "iter"
  /\ Top.i <= Len(Top.found)
  /\ Top.found[Top.i] = NoNode
  /\ graph' = Append(graph, Node(Top.children.entries[Top.i].name,
                                 layout.types[Top.depth + 1], Top.parent,
                                 layout.relations[Top.depth + 1]))
  /\ emitted' = Append(emitted, Write("create", Len(graph) + 1, Top.parent, 0))
  /\ stack' = SetTop([Top EXCEPT !.phase = "yielded", !.child = Len(graph) + 1])
  /\ gen' = "yielding"
  /\ calls' = [calls EXCEPT !.create = @ + 1]
  /\ UNCHANGED <<graph0, failure, outcomes, other, variant, referencial, props, tmpTree, attached, bimContext, pc,
                 pending, completed, confirmed, promises, nodes, flushed,
                 progression, runNo, runStart, graphAtStart, afterRun1>>

\* Resumed after the yield of a creation: recurse into the new child.
GenDescend ==
  /\ Running
  /\ Top.children.kind = "Map" /\ Top.phase = "yielded"
  /\ stack' = Append(SetTop([Top EXCEPT !.i = @ + 1, !.phase = "iter", !.child = NoNode]),
                     Frame(Top.child, Top.children.entries[Top.i].value, Top.depth + 1))
  /\ calls' = [calls EXCEPT !.rec = @ + 1]
  /\ UNCHANGED <<graph0, failure, outcomes, other, variant, referencial, props, tmpTree, graph, attached, bimContext,
                 gen, pc, pending, emitted, completed, confirmed, promises, nodes,
                 flushed, progression, runNo, runStart, graphAtStart, afterRun1>>

\* Mutant: an item already attached to the parent is skipped.
GenAttachOnce ==
  /\ Running
  /\ Top.children.kind = "Array"
  /\ Top.i <= Len(Top.children.items)
  /\ stack' = SetTop([Top EXCEPT !.i = @ + 1])
  /\ IF <<Top.parent, Top.children.items[Top.i].dbId>> \in attached
     THEN UNCHANGED <<attached, emitted, gen, calls>>
     ELSE /\ attached' = attached \cup {<<Top.parent, Top.children.items[Top.i].dbId>>}
          /\ emitted' = Append(emitted, Write("attach", NoNode, Top.parent,
                                              Top.children.items[Top.i].dbId))
          /\ gen' = "yielding"
          /\ calls' = [calls EXCEPT !.attach = @ + 1]
  /\ UNCHANGED <<graph0, failure, outcomes, other, variant, referencial, props, tmpTree, graph, bimContext, pc,
                 pending, completed, confirmed, promises, nodes, flushed,
                 progression, runNo, runStart, graphAtStart, afterRun1>>

\* A leaf: yield bimObjectService.addBIMObject(context, parent, dbId, name).
GenAttach ==
  /\ Running
  /\ Top.children.kind = "Array"
  /\ Top.i <= Len(Top.children.items)
  /\ attached' = attached \cup {<<Top.parent, Top.children.items[Top.i].dbId>>}
  /\ emitted' = Append(emitted, Write("attach", NoNode, Top.parent,
                                      Top.children.items[Top.i].dbId))
  /\ stack' = SetTop([Top EXCEPT !.i = @ + 1])
  /\ gen' = "yielding"
  /\ calls' = [calls EXCEPT !.attach = @ + 1]
  /\ UNCHANGED <<graph0, failure, outcomes, other, variant, referencial, props, tmpTree, graph, bimContext, pc,
                 pending, completed, confirmed, promises, nodes, flushed,
                 progression, runNo, runStart, graphAtStart, afterRun1>>

\* The loop of the top call is over: the call returns to the yield* above.
GenReturn ==
  /\ Running
  /\ \/ Top.children.kind = "Map" /\ Top.phase = "iter" /\ Top.i > Len(Top.found)
     \/ Top.children.kind = "Array" /\ Top.i > Len(Top.children.items)
  /\ stack' = SubSeq(stack, 1, Len(stack) - 1)
  /\ UNCHANGED <<graph0, failure, outcomes, other, variant, referencial, props, tmpTree, graph, attached, bimContext,
                 gen, pc, pending, emitted, completed, confirmed, promises, nodes,
                 flushed, progression, calls, runNo, runStart, graphAtStart, afterRun1>>

\* The outermost call has returned: the generator is done.
GenFinish ==
  /\ pc = "loop" /\ gen = "run" /\ stack = <<>>
  /\ gen' = "done"
  /\ UNCHANGED <<graph0, failure, outcomes, other, variant, referencial, props, tmpTree, graph, attached, bimContext,
                 stack, pc, pending, emitted, completed, confirmed, promises, nodes,
                 flushed, progression, calls, runNo, runStart, graphAtStart, afterRun1>>

\* yield in an async generator awaits its operand: the write's promise
\* resolves, then the value is handed to the for await loop.
GenYield ==
  /\ pc = "loop" /\ gen = "yielding"
  /\ completed' = completed \cup {LastWrite}
  /\ gen' = "suspended"
  /\ pc' = "recv"
  /\ UNCHANGED <<graph0, failure, outcomes, other, variant, referencial, props, tmpTree, graph, attached, bimContext,
                 stack, pending, emitted, confirmed, promises, nodes, flushed,
                 progression, calls, runNo, runStart, graphAtStart, afterRun1>>


\* ------------------------------------------------------------ orchestrators
\* const incrProg = PROGRESS_BAR_SIZE_CREATE_GRAPH * MAX_NON_SYNCHRONIZED_NODES
\*                  / props.length
incrProg(p) ==
  Double(PROGRESS_BAR_SIZE_CREATE_GRAPH * MAX_NON_SYNCHRONIZED_NODES, Len(p))

Range(s) == {s[i] : i \in 1..Len(s)}

\* Variant A, first statement: progression.value = PROGRESS_BAR_SIZE_GET_PROPS.
StartA ==
  /\ pc = "start" /\ variant = "A"
  /\ progression' = Double(PROGRESS_BAR_SIZE_GET_PROPS, 1)
  /\ pc' = "tree"
  /\ UNCHANGED <<graph0, failure, outcomes, other, variant, referencial, props, tmpTree, graph, attached, bimContext,
                 stack, gen, pending, emitted, completed, confirmed, promises,
                 nodes, flushed, calls, runNo, runStart, graphAtStart, afterRun1>>

\* Variant A: build the temporary tree, add PROGRESS_BAR_SIZE_CREATE_TREE and
\* enter the for await loop (which asks the generator for its first value).
BuildTreeA ==
  /\ pc = "tree" /\ variant = "A"
  /\ tmpTree' = createTmpTree(props)
  /\ promises' = <<>>
  /\ progression' = DoubleAdd(progression, Double(PROGRESS_BAR_SIZE_CREATE_TREE, 1))
  /\ stack' = <<Frame(ContextId, tmpTree', 0)>>
  /\ gen' = "run"
  /\ pc' = "loop"
  /\ calls' = [calls EXCEPT !.rec = @ + 1]
  /\ UNCHANGED <<graph0, failure, outcomes, other, variant, referencial, props, graph, attached, bimContext, pending,
                 emitted, completed, confirmed, nodes, flushed, runNo,
                 runStart, graphAtStart, afterRun1>>

\* Variant B: Promise.all([hasProperties(...), bimObjectService.getContext()]):
\* both calls are made before either is awaited.
\* The promise of a call made by the running call of the orchestrator.
Own(name) == <<name, runNo>>

StartB ==
  /\ pc = "start" /\ variant = "B"
  /\ pending' = pending \cup {Own("hasProperties"), Own("getContext")}
  /\ calls' = [calls EXCEPT !.filter = @ + 1, !.getContext = @ + 1]
  /\ pc' = "all"
  /\ UNCHANGED <<graph0, failure, outcomes, other, variant, referencial, props, tmpTree, graph, attached, bimContext,
                 stack, gen, emitted, completed, confirmed, promises, nodes,
                 flushed, progression, runNo, runStart, graphAtStart, afterRun1>>

\* hasProperties resolves (the one of a call whose Promise.all has been
\* rejected settles without effect).
HasPropertiesResolve ==
  /\ \E p \in pending : p[1] = "hasProperties" /\ pending' = pending \ {p}
  /\ UNCHANGED <<graph0, failure, outcomes, other, variant, referencial, props, tmpTree, graph, attached, bimContext,
                 stack, gen, pc, emitted, completed, confirmed, promises, nodes,
                 flushed, progression, calls, runNo, runStart, graphAtStart,
                 afterRun1>>

\* getContext resolves: the BIMObjectContext is created if it isn't already.
\* The call goes on when the Promise.all has been rejected by hasProperties,
\* and when the orchestrator has been called again since.
GetContextResolve ==
  /\ \E p \in pending : p[1] = "getContext" /\ pending' = pending \ {p}
  /\ bimContext' = TRUE
  /\ UNCHANGED <<graph0, failure, outcomes, other, variant, referencial, props, tmpTree, graph, attached, stack, gen,
                 pc, emitted, completed, confirmed, promises, nodes, flushed,
                 progression, calls, runNo, runStart, graphAtStart, afterRun1>>

\* Mutant: the test for an empty result is missing.
NoValidItemUnchecked(p) == FALSE

\* if (props.length === 0) return;
NoValidItem(p) == Len(p) = 0

\* Variant B, after the Promise.all: return if there is no valid item, else
\* build the temporary tree and enter the for await loop.
FilteredB ==
  /\ pc = "all" /\ Own("hasProperties") \notin pending /\ Own("getContext") \notin pending
  /\ props' = hasProperties(referencial, layout.keys).valid
  /\ IF NoValidItem(props')
     THEN /\ pc' = "done"
          /\ afterRun1' = IF runNo = 1 THEN [graph |-> graph, attached |-> attached]
                          ELSE afterRun1
          /\ UNCHANGED <<tmpTree, promises, stack, gen, calls>>
     ELSE /\ tmpTree' = createTmpTree(props')
          /\ promises' = <<>>
          /\ stack' = <<Frame(ContextId, tmpTree', 0)>>
          /\ gen' = "run"
          /\ pc' = "loop"
          /\ calls' = [calls EXCEPT !.rec = @ + 1]
          /\ UNCHANGED afterRun1
  /\ UNCHANGED <<graph0, failure, outcomes, other, variant, referencial, graph, attached, bimContext, pending, emitted,
                 completed, confirmed, nodes, flushed, progression, runNo,
                 runStart, graphAtStart>>

\* Body of the for await loop: push the value; at the threshold (variant A:
\* add incrProg and) call waitForFileSystem, else ask for the next value.
Push ==
  /\ pc = "recv"
  /\ promises' = Append(promises, LastWrite)
  /\ IF Len(promises') = MAX_NON_SYNCHRONIZED_NODES
     THEN /\ progression' = IF variant = "A"
                            THEN DoubleAdd(progression, incrProg(props))
                            ELSE progression
          /\ pc' = "wait"
          /\ UNCHANGED gen
     ELSE /\ pc' = "loop"
          /\ gen' = "run"
          /\ UNCHANGED progression
  /\ UNCHANGED <<graph0, failure, outcomes, other, variant, referencial, props, tmpTree, graph, attached, bimContext,
                 stack, pending, emitted, completed, confirmed, nodes, flushed,
                 calls, runNo, runStart, graphAtStart, afterRun1>>

\* waitForFileSystem: let nodes = await Promise.all(promises), then the
\* interval is set.
WaitAll ==
  /\ pc \in {"wait", "waitFinal"}
  /\ Range(promises) \subseteq completed
  /\ nodes' = promises
  /\ pc' = IF pc = "wait" THEN "poll" ELSE "pollFinal"
  /\ UNCHANGED <<graph0, failure, outcomes, other, variant, referencial, props, tmpTree, graph, attached, bimContext,
                 stack, gen, pending, emitted, completed, confirmed, promises,
                 flushed, progression, calls, runNo, runStart, graphAtStart,
                 afterRun1>>

\* Mutant: the callback of the filter returns nothing.
StillWaitedNone(ns, registry) == <<>>

\* Mutant: the test of the filter is inverted.
StillWaitedInverted(ns, registry) == SelectSeq(ns, LAMBDA k : k \in registry)

\* nodes.filter(node => FileSystem._objects[node._server_id] === undefined)
StillWaited(ns, registry) == SelectSeq(ns, LAMBDA k : k \notin registry)

\* One tick of the interval: keep the nodes not in FileSystem._objects yet;
\* when none is left, clear the interval and resolve.
Tick ==
  /\ pc \in {"poll", "pollFinal"}
  /\ nodes' = StillWaited(nodes, confirmed)
  /\ IF Len(nodes') = 0
     THEN /\ pc' = IF pc = "poll" THEN "resolved" ELSE "resolvedFinal"
          /\ flushed' = flushed \cup Range(promises)
     ELSE UNCHANGED <<pc, flushed>>
  /\ UNCHANGED <<graph0, failure, outcomes, other, variant, referencial, props, tmpTree, graph, attached, bimContext,
                 stack, gen, pending, emitted, completed, confirmed, promises,
                 progression, calls, runNo, runStart, graphAtStart, afterRun1>>

\* After the await of waitForFileSystem in the loop: variant A empties the
\* batch (promises = []), variant B does not; the loop asks for the next value.
Resume ==
  /\ pc = "resolved"
  /\ promises' = IF variant = "A" THEN <<>> ELSE promises
  /\ pc' = "loop"
  /\ gen' = "run"
  /\ UNCHANGED <<graph0, failure, outcomes, other, variant, referencial, props, tmpTree, graph, attached, bimContext,
                 stack, pending, emitted, completed, confirmed, nodes, flushed,
                 progression, calls, runNo, runStart, graphAtStart, afterRun1>>

\* Mutant: the last flush is made even when nothing is left.
HasLeftoverAlways(ps) == TRUE

\* Mutant: the last, partial batch is not flushed.
HasLeftoverIgnored(ps) == FALSE

\* if (promises.length !== 0) after the loop.
HasLeftover(ps) == Len(ps) # 0

\* The generator is done: flush what is left, if anything; else the run ends
\* (variant A: progression.value = 100).
LoopExit ==
  /\ pc = "loop" /\ gen = "done"
  /\ IF HasLeftover(promises)
     THEN /\ pc' = "waitFinal"
          /\ UNCHANGED <<progression, afterRun1>>
     ELSE /\ pc' = "done"
          /\ progression' = IF variant = "A" THEN Double(100, 1) ELSE progression
          /\ afterRun1' = IF runNo = 1 THEN [graph |-> graph, attached |-> attached]
                          ELSE afterRun1
  /\ UNCHANGED <<graph0, failure, outcomes, other, variant, referencial, props, tmpTree, graph, attached, bimContext,
                 stack, gen, pending, emitted, completed, confirmed, promises,
                 nodes, flushed, calls, runNo, runStart, graphAtStart>>

\* After the await of the last waitForFileSystem: the run ends.
Finish ==
  /\ pc = "resolvedFinal"
  /\ pc' = "done"
  /\ progression' = IF variant = "A" THEN Double(100, 1) ELSE progression
  /\ afterRun1' = IF runNo = 1 THEN [graph |-> graph, attached |-> attached]
                  ELSE afterRun1
  /\ UNCHANGED <<graph0, failure, outcomes, other, variant, referencial, props, tmpTree, graph, attached, bimContext,
                 stack, gen, pending, emitted, completed, confirmed, promises,
                 nodes, flushed, calls, runNo, runStart, graphAtStart>>

\* The caller runs the generation again, after a run that returned or was
\* aborted, with the same context, layout and items (and a fresh progression
\* object).
Rerun ==
  /\ pc \in {"done", "failed"} /\ runNo < MaxRuns
  /\ outcomes' = Append(outcomes, pc)
  /\ failure' = "none"
  /\ runNo' = runNo + 1
  /\ runStart' = Len(emitted)
  /\ graphAtStart' = graph
  /\ props' = IF variant = "A" THEN referencial ELSE <<>>
  /\ tmpTree' = NoTree
  /\ stack' = <<>>
  /\ gen' = "idle"
  /\ pc' = "start"
  /\ promises' = <<>>
  /\ nodes' = <<>>
  /\ progression' = Double(0, 1)
  /\ calls' = NoCalls
  /\ UNCHANGED <<graph0, other, variant, referencial, graph, attached, bimContext, pending, emitted,
                 completed, confirmed, flushed, afterRun1>>

\* ------------------------------------------------------------- environment
\* The hub registers the node of a write in FileSystem._objects.
Confirm ==
  /\ \E k \in 1..Len(emitted) :
       /\ k \notin confirmed
       /\ confirmed' = confirmed \cup {k}
  /\ UNCHANGED <<graph0, failure, outcomes, other, variant, referencial, props, tmpTree, graph, attached, bimContext,
                 stack, gen, pc, pending, emitted, completed, promises, nodes,
                 flushed, progression, calls, runNo, runStart, graphAtStart,
                 afterRun1>>

\* ---------------------------------------------------- collaborator failures
\* A rejected call has no effect on the graph; the rejection is thrown at the
\* await (or at the yield, which awaits) in the generator, leaves the for await
\* loop and rejects the promise of the run: nothing catches it.
CanFail ==
  Cardinality({r \in 1..Len(outcomes) : outcomes[r] = "failed"}) < MaxFailures

\* Mutant: the rejection of hasProperties is swallowed and the run goes on.
HasPropertiesFailSwallowed ==
  /\ CanFail
  /\ pc = "all" /\ Own("hasProperties") \in pending
  /\ pending' = pending \ {Own("hasProperties")}
  /\ failure' = "filter"
  /\ UNCHANGED <<graph0, outcomes, other, variant, referencial, props, tmpTree, graph,
                 attached, bimContext, stack, gen, pc, emitted, completed, confirmed,
                 promises, nodes, flushed, progression, calls, runNo, runStart,
                 graphAtStart, afterRun1>>

\* Variant B: hasProperties rejects, and with it the Promise.all of the call
\* that made it, when that one is still awaited: a rejection that comes after
\* getContext has rejected the Promise.all, or after the caller has called
\* again, changes nothing.
HasPropertiesFail ==
  /\ \E p \in pending :
       /\ p[1] = "hasProperties"
       /\ pending' = pending \ {p}
       /\ IF p = Own("hasProperties") /\ pc = "all"
          THEN CanFail /\ pc' = "failed" /\ failure' = "filter"
          ELSE UNCHANGED <<pc, failure>>
  /\ UNCHANGED <<graph0, outcomes, other, variant, referencial, props, tmpTree, graph,
                 attached, bimContext, stack, gen, emitted, completed, confirmed,
                 promises, nodes, flushed, progression, calls, runNo, runStart,
                 graphAtStart, afterRun1>>

\* Variant B: getContext rejects, and with it the Promise.all of the call
\* that made it, when that one is still awaited; no BIMObjectContext is
\* created. A rejection that comes after hasProperties has rejected the
\* Promise.all, or after the caller has called again, changes nothing.
GetContextFail ==
  /\ \E p \in pending :
       /\ p[1] = "getContext"
       /\ pending' = pending \ {p}
       /\ IF p = Own("getContext") /\ pc = "all"
          THEN CanFail /\ pc' = "failed" /\ failure' = "getContext"
          ELSE UNCHANGED <<pc, failure>>
  /\ UNCHANGED <<graph0, outcomes, other, variant, referencial, props, tmpTree, graph,
                 attached, bimContext, stack, gen, emitted, completed, confirmed,
                 promises, nodes, flushed, progression, calls, runNo, runStart,
                 graphAtStart, afterRun1>>

\* getChildren is called (variant B: every getChildren call of the map is
\* made) and the generator awaits; the call (variant B: one of the calls) is
\* one that will reject.
GenLookupCall ==
  /\ CanFail
  /\ Running
  /\ Top.children.kind = "Map" /\ Top.phase = "lookup"
  /\ variant = "B" => Len(Top.children.entries) > 0
  /\ calls' = [calls EXCEPT !.lookup =
                 @ + (IF variant = "A" THEN 1 ELSE Len(Top.children.entries))]
  /\ pending' = pending \cup {Own("getChildren")}
  /\ gen' = "awaiting"
  /\ UNCHANGED <<graph0, failure, outcomes, other, variant, referencial, props, tmpTree,
                 graph, attached, bimContext, stack, pc, emitted, completed,
                 confirmed, promises, nodes, flushed, progression, runNo,
                 runStart, graphAtStart, afterRun1>>

\* getChildren rejects; the rejection is thrown at the await in the
\* generator, leaves the for await loop and rejects the promise of the run.
GenLookupFail ==
  /\ pc = "loop" /\ gen = "awaiting" /\ Own("getChildren") \in pending
  /\ pending' = pending \ {Own("getChildren")}
  /\ stack' = <<>>
  /\ gen' = "failed"
  /\ pc' = "failed"
  /\ failure' = "lookup"
  /\ UNCHANGED <<graph0, outcomes, other, variant, referencial, props, tmpTree, graph,
                 attached, bimContext, emitted, completed, confirmed, promises,
                 nodes, flushed, progression, calls, runNo, runStart,
                 graphAtStart, afterRun1>>

\* addChildInContext is called for a new node and its promise is yielded; the
\* call is one that will reject.
GenCreateCall ==
  /\ CanFail
  /\ Running
  /\ Top.children.kind = "Map" /\ Top.phase = "iter"
  /\ Top.i <= Len(Top.found)
  /\ Top.found[Top.i] = NoNode
  /\ calls' = [calls EXCEPT !.create = @ + 1]
  /\ pending' = pending \cup {Own("addChildInContext")}
  /\ gen' = "awaiting"
  /\ UNCHANGED <<graph0, failure, outcomes, other, variant, referencial, props, tmpTree,
                 graph, attached, bimContext, stack, pc, emitted, completed,
                 confirmed, promises, nodes, flushed, progression, runNo,
                 runStart, graphAtStart, afterRun1>>

\* addChildInContext rejects: no node is added to the parent.
GenCreateFail ==
  /\ pc = "loop" /\ gen = "awaiting" /\ Own("addChildInContext") \in pending
  /\ pending' = pending \ {Own("addChildInContext")}
  /\ stack' = <<>>
  /\ gen' = "failed"
  /\ pc' = "failed"
  /\ failure' = "create"
  /\ UNCHANGED <<graph0, outcomes, other, variant, referencial, props, tmpTree, graph,
                 attached, bimContext, emitted, completed, confirmed, promises,
                 nodes, flushed, progression, calls, runNo, runStart,
                 graphAtStart, afterRun1>>

\* addBIMObject is called and its promise is yielded; the call is one that
\* will reject.
GenAttachCall ==
  /\ CanFail
  /\ Running
  /\ Top.children.kind = "Array"
  /\ Top.i <= Len(Top.children.items)
  /\ calls' = [calls EXCEPT !.attach = @ + 1]
  /\ pending' = pending \cup {Own("addBIMObject")}
  /\ gen' = "awaiting"
  /\ UNCHANGED <<graph0, failure, outcomes, other, variant, referencial, props, tmpTree,
                 graph, attached, bimContext, stack, pc, emitted, completed,
                 confirmed, promises, nodes, flushed, progression, runNo,
                 runStart, graphAtStart, afterRun1>>

\* addBIMObject rejects: the item is not attached.
GenAttachFail ==
  /\ pc = "loop" /\ gen = "awaiting" /\ Own("addBIMObject") \in pending
  /\ pending' = pending \ {Own("addBIMObject")}
  /\ stack' = <<>>
  /\ gen' = "failed"
  /\ pc' = "failed"
  /\ failure' = "attach"
  /\ UNCHANGED <<graph0, outcomes, other, variant, referencial, props, tmpTree, graph,
                 attached, bimContext, emitted, completed, confirmed, promises,
                 nodes, flushed, progression, calls, runNo, runStart,
                 graphAtStart, afterRun1>>

collaboratorFailure ==
  \/ HasPropertiesFail \/ GetContextFail
  \/ GenLookupCall \/ GenLookupFail
  \/ GenCreateCall \/ GenCreateFail
  \/ GenAttachCall \/ GenAttachFail

generateGeoContextRec ==
  \/ GenLookupA \/ GenLookupB \/ GenReuse \/ GenCreate \/ GenDescend
  \/ GenAttach \/ GenReturn \/ GenFinish \/ GenYield

waitForFileSystem == WaitAll \/ Tick

generateGeoContext == StartA \/ BuildTreeA

GenerateGeoContext == StartB \/ HasPropertiesResolve \/ GetContextResolve \/ FilteredB

Next ==
  \/ generateGeoContextRec
  \/ waitForFileSystem
  \/ generateGeoContext
  \/ GenerateGeoContext
  \/ Push \/ Resume \/ LoopExit \/ Finish
  \/ Rerun
  \/ Confirm

\* Runs in which no collaborator call fails.
Spec == Init /\ [][Next]_vars

\* Runs in which collaborator calls may fail.
FailNext == Next \/ collaboratorFailure

FailSpec == Init /\ [][FailNext]_vars

\* ------------------------------------------------------------ one fair run
\* The steps of the program itself, and one run of it with the hub.
ProgramNext ==
  \/ generateGeoContextRec
  \/ waitForFileSystem
  \/ generateGeoContext
  \/ GenerateGeoContext
  \/ Push \/ Resume \/ LoopExit \/ Finish

LiveNext == ProgramNext \/ Confirm

\* One run in which no call fails, the event loop runs every continuation and
\* timer that is ready, and the hub goes on registering the nodes written
\* (a node registered in FileSystem._objects stays registered).
LiveSpec == Init /\ [][LiveNext]_vars /\ WF_vars(ProgramNext) /\ WF_vars(Confirm)

\* ------------------------------------------------------ two concurrent runs
\* The variables of the running call, as a record.
Locals ==
  [active |-> TRUE, props |-> props, tmpTree |-> tmpTree, stack |-> stack,
   gen |-> gen, pc |-> pc, promises |-> promises,
   nodes |-> nodes, progression |-> progression, calls |-> calls,
   runNo |-> runNo, runStart |-> runStart, graphAtStart |-> graphAtStart,
   failure |-> failure]

\* A second call of the orchestrator with the same context, layout and items,
\* made while the first is at an await.
SecondRun ==
  [active |-> TRUE, props |-> IF variant = "A" THEN referencial ELSE <<>>,
   tmpTree |-> NoTree, stack |-> <<>>, gen |-> "idle", pc |-> "start",
   promises |-> <<>>, nodes |-> <<>>,
   progression |-> Double(0, 1), calls |-> NoCalls, runNo |-> 2,
   runStart |-> Len(emitted), graphAtStart |-> graph, failure |-> "none"]

\* The running call has returned to the event loop: it is over, or at the
\* await of the first Promise.all (variant B), of a lookup whose result it
\* holds, of a write it yields, or of waitForFileSystem.
AtAwait ==
  \/ pc = "done"
  \/ pc = "all"
  \/ Running /\ Top.children.kind = "Map" /\ Top.phase = "iter" /\ Top.i = 1
  \/ pc = "loop" /\ gen \in {"yielding", "awaiting"}
  \/ pc \in {"wait", "poll", "resolved", "waitFinal", "pollFinal", "resolvedFinal"}

\* The event loop goes on with the other call (which is made, the first
\* time) unless that one is over.
Switch ==
  /\ AtAwait
  /\ other.active => other.pc # "done"
  /\ LET next == IF other.active THEN other ELSE SecondRun
     IN /\ props' = next.props /\ tmpTree' = next.tmpTree /\ stack' = next.stack
        /\ gen' = next.gen /\ pc' = next.pc
        /\ promises' = next.promises /\ nodes' = next.nodes
        /\ progression' = next.progression /\ calls' = next.calls
        /\ runNo' = next.runNo /\ runStart' = next.runStart
        /\ graphAtStart' = next.graphAtStart /\ failure' = next.failure
  /\ other' = Locals
  /\ UNCHANGED <<graph0, outcomes, variant, referencial, graph, attached, bimContext,
                 pending, emitted, completed, confirmed, flushed, afterRun1>>

RaceNext ==
  \/ generateGeoContextRec
  \/ waitForFileSystem
  \/ generateGeoContext
  \/ GenerateGeoContext
  \/ Push \/ Resume \/ LoopExit \/ Finish
  \/ Confirm
  \/ Switch

RaceInit == Init /\ Len(referencial) <= MaxRaceItems

\* Two calls of the orchestrator interleaved at their awaits, no call failing.
RaceSpec == RaceInit /\ [][RaceNext]_vars

TypeOK ==
  /\ variant \in {"A", "B"}
  /\ pc \in {"start", "tree", "all", "loop", "recv", "wait", "poll", "resolved",
             "waitFinal", "pollFinal", "resolvedFinal", "done", "failed"}
  /\ gen \in {"idle", "run", "yielding", "awaiting", "suspended", "done", "failed"}
  /\ failure \in {"none", "filter", "getContext", "lookup", "create", "attach"}
  /\ pending \subseteq {"hasProperties", "getContext", "getChildren",
                        "addChildInContext", "addBIMObject"} \X (1..MaxRuns)
  /\ confirmed \subseteq 1..Len(emitted)
  /\ completed \subseteq 1..Len(emitted)


\* ================================================================== claims
RunWrites == (runStart + 1)..Len(emitted)

Unconfirmed == {k \in 1..Len(emitted) : k \notin confirmed}

\* C1: after a first run that completed, a second run with the same context,
\* layout and items creates no node
\* and adds no relation: during and after it the nodes and the attachments
\* are those left by the first run, and it issues no creation write.
C1_Idempotence ==
  (runNo >= 2 /\ outcomes[1] = "done") =>
    /\ graph = afterRun1.graph
    /\ attached = afterRun1.attached
    /\ \A k \in RunWrites : emitted[k].kind # "create"

\* C1 witness: the second run is over, it looked children up and attached
\* items again, after a first run that created nodes.
C1_Witness ==
  /\ runNo = 2 /\ pc = "done" /\ outcomes[1] = "done"
  /\ calls.lookup > 0
  /\ Len(emitted) > runStart
  /\ \E k \in 1..runStart : emitted[k].kind = "create"

\* C2: the writes emitted and not yet confirmed, and the batch held by the
\* orchestrator, never exceed MAX_NON_SYNCHRONIZED_NODES.
C2_BatchBound ==
  /\ Cardinality(Unconfirmed) <= MAX_NON_SYNCHRONIZED_NODES
  /\ Len(promises) <= MAX_NON_SYNCHRONIZED_NODES

RECURSIVE AncestorOrSelf(_, _, _)
AncestorOrSelf(g, a, n) ==
  IF n = 0 THEN FALSE
  ELSE IF n = a THEN TRUE
  ELSE AncestorOrSelf(g, a, g[n].parent)

\* Write d is one of a descendant of the node created by write w, in the same
\* run.
DescendantWrite(w, d) ==
  /\ emitted[w].kind = "create"
  /\ d # w
  /\ emitted[d].run = emitted[w].run
  /\ AncestorOrSelf(graph, emitted[w].node, emitted[d].parent)

Flushing == pc \in {"wait", "poll", "resolved", "waitFinal", "pollFinal", "resolvedFinal"}

\* C3: the creation write of a node is emitted before every write of its
\* descendants; its promise has resolved when a batch holding a descendant's
\* write is handed to waitForFileSystem; and it is confirmed (in a batch
\* whose wait has resolved) whenever the wait of a batch holding a
\* descendant's write has resolved.
C3_PreOrderFlush ==
  \A w, d \in 1..Len(emitted) :
    DescendantWrite(w, d) =>
      /\ w < d
      /\ (Flushing /\ d \in Range(promises)) => w \in completed
      /\ d \in flushed => (w \in flushed /\ w \in confirmed /\ w \in completed)

\* C3 witness: a flush inside the loop has resolved for a batch holding a
\* write under a node whose creation write was flushed in an earlier batch.
C3_Witness ==
  /\ pc = "resolved" /\ variant = "A"
  /\ \E w, d \in 1..Len(emitted) :
       /\ DescendantWrite(w, d)
       /\ d \in Range(promises)
       /\ w \notin Range(promises)
       /\ d \in flushed


\* The children of the parent of the top call that bear the name of the entry
\* the call is about to handle.
SameNamed ==
  {c \in ChildIds(graph, Top.parent, layout.relations[Top.depth + 1]) :
     graph[c].name = Top.children.entries[Top.i].name}

\* The generator handles the next entry of a Map (reuse or creation), no call
\* being rejected.
EntryStep ==
  /\ Running
  /\ Top.children.kind = "Map" /\ Top.phase = "iter"
  /\ Top.i <= Len(Top.found)
  /\ stack' # stack
  /\ pc' # "failed"

\* The generator recurses into the child it has just created.
DescendStep ==
  /\ Running
  /\ Top.children.kind = "Map" /\ Top.phase = "yielded"
  /\ stack' # stack

\* C4: an entry named X is matched by name to the children of the parent
\* under layout.relations[depth], whatever the order returned: when a child
\* named X exists, no node is created, no write is emitted and the recursion
\* takes that child as parent; when none exists, exactly one node named X of
\* type layout.types[depth] is created under the parent, one write is
\* emitted, and the recursion takes the new node as parent.
C4_NameBasedReuse ==
  [][ /\ EntryStep =>
          IF SameNamed # {}
          THEN /\ graph' = graph
               /\ emitted' = emitted
               /\ Len(stack') = Len(stack) + 1
               /\ stack'[Len(stack')].parent \in SameNamed
               /\ stack'[Len(stack')].children = Top.children.entries[Top.i].value
          ELSE /\ Len(graph') = Len(graph) + 1
               /\ SubSeq(graph', 1, Len(graph)) = graph
               /\ graph'[Len(graph')] =
                    Node(Top.children.entries[Top.i].name, layout.types[Top.depth + 1],
                         Top.parent, layout.relations[Top.depth + 1])
               /\ Len(emitted') = Len(emitted) + 1
               /\ emitted'[Len(emitted')].kind = "create"
               /\ emitted'[Len(emitted')].node = Len(graph')
               /\ stack'[Len(stack')].child = Len(graph')
      /\ DescendStep =>
          /\ graph' = graph
          /\ Len(stack') = Len(stack) + 1
          /\ stack'[Len(stack')].parent = Top.child
          /\ graph[Top.child].name = Top.children.entries[Top.i].name
          /\ stack'[Len(stack')].children = Top.children.entries[Top.i].value
    ]_vars

\* C4 witness: the generator walks the subtree of an entry under a node that
\* existed before the run (the third node of the graph), reused while the
\* context has several children under the relation.
C4_Witness ==
  /\ runNo = 1
  /\ Len(stack) >= 2
  /\ stack[2].parent <= Len(graphAtStart)
  /\ stack[2].parent = 3
  /\ Cardinality(ChildIds(graph, ContextId, layout.relations[1])) >= 2

RECURSIVE PathOf(_, _)
PathOf(g, n) ==
  IF n = ContextId \/ n = 0 THEN <<>>
  ELSE Append(PathOf(g, g[n].parent), g[n].name)

\* The write k, with the node it is about named by its path of names.
AbstractWrite(k) ==
  IF emitted[k].kind = "create"
  THEN [kind |-> "create", path |-> PathOf(graph, emitted[k].node), dbId |-> 0]
  ELSE [kind |-> "attach", path |-> PathOf(graph, emitted[k].parent),
        dbId |-> emitted[k].dbId]

RunSequence == [j \in 1..(Len(emitted) - runStart) |-> AbstractWrite(runStart + j)]

\* The child of parent named name under the relation of depth in g, if any.
ExistingChild(g, parent, name, depth) ==
  LET hits == {c \in ChildIds(g, parent, layout.relations[depth + 1]) : g[c].name = name}
  IN IF parent = NoNode \/ hits = {} THEN NoNode ELSE CHOOSE c \in hits : TRUE

\* The depth-first pre-order walk of a tree against the graph g: for each
\* entry, a creation if no child of that name existed, then its subtree; for
\* a leaf, one attachment per item.
RECURSIVE PreOrder(_, _, _, _, _)
RECURSIVE PreOrderEntries(_, _, _, _, _)
PreOrder(tree, g, parent, path, depth) ==
  IF tree.kind = "Array"
  THEN [j \in 1..Len(tree.items) |->
          [kind |-> "attach", path |-> path, dbId |-> tree.items[j].dbId]]
  ELSE PreOrderEntries(tree.entries, g, parent, path, depth)

PreOrderEntries(entries, g, parent, path, depth) ==
  IF entries = <<>> THEN <<>>
  ELSE LET e == Head(entries)
           child == ExistingChild(g, parent, e.name, depth)
           here == IF child = NoNode
                   THEN <<[kind |-> "create", path |-> Append(path, e.name), dbId |-> 0]>>
                   ELSE <<>>
       IN here \o PreOrder(e.value, g, child, Append(path, e.name), depth + 1)
               \o PreOrderEntries(Tail(entries), g, parent, path, depth)

RECURSIVE LeafItems(_)
RECURSIVE LeafItemsOf(_)
LeafItems(tree) ==
  IF tree.kind = "Array" THEN Len(tree.items) ELSE LeafItemsOf(tree.entries)

LeafItemsOf(entries) ==
  IF entries = <<>> THEN 0
  ELSE LeafItems(Head(entries).value) + LeafItemsOf(Tail(entries))

IsPrefix(s, t) == Len(s) <= Len(t) /\ SubSeq(t, 1, Len(s)) = s

\* C5: the writes emitted by a run are, at any time, a prefix of the
\* depth-first pre-order walk of the tree against the graph the run started
\* from, and the whole walk once the run is over; their number is the number
\* of nodes created plus the number of leaf items.
C5_EmissionSequence ==
  tmpTree # NoTree =>
    LET expected == PreOrder(tmpTree, graphAtStart, ContextId, <<>>, 0)
    IN /\ IsPrefix(RunSequence, expected)
       /\ gen = "done" =>
            /\ RunSequence = expected
            /\ Len(emitted) - runStart =
                 (Len(graph) - Len(graphAtStart)) + LeafItems(tmpTree)

\* C5 witness: a run over a graph where a node of the tree existed is over,
\* having emitted a creation and an attachment but no write for that node.
C5_Witness ==
  /\ runNo = 1 /\ pc = "done" /\ tmpTree # NoTree
  /\ Len(graphAtStart) > 1
  /\ \E k \in RunWrites : emitted[k].kind = "create"
  /\ \E k \in RunWrites : emitted[k].kind = "attach" /\ emitted[k].parent > Len(graphAtStart)
  /\ \E k \in RunWrites : emitted[k].kind = "create" /\ emitted[k].parent \in 2..Len(graphAtStart)


\* Variant B has returned and the filter had found no valid item.
EmptyRunB ==
  /\ variant = "B" /\ pc = "done"
  /\ Len(hasProperties(referencial, layout.keys).valid) = 0

\* C6 as claimed: when the filter returns no valid item, variant B returns
\* without building the tree and without any graph call at all.
C6_NoGraphCall ==
  EmptyRunB =>
    /\ tmpTree = NoTree
    /\ calls.lookup = 0 /\ calls.create = 0 /\ calls.attach = 0
    /\ calls.getContext = 0

\* C6 amended: when the filter returns no valid item, variant B returns
\* without building the tree and without any lookup, node creation or
\* attachment (graph and attachments are as at the start); the one
\* graph-touching call made is bimObjectService.getContext(), which was
\* issued together with the filter, before its result was known.
C6_ShortCircuit ==
  EmptyRunB =>
    /\ tmpTree = NoTree
    /\ calls.lookup = 0 /\ calls.create = 0 /\ calls.attach = 0
    /\ calls.getContext = 1
    /\ Len(emitted) = runStart
    /\ graph = graphAtStart

\* C6 witness: variant B has returned from a run whose referencial had items,
\* none of them valid.
C6_Witness ==
  /\ EmptyRunB
  /\ runNo = 1
  /\ Len(referencial) > 0
  /\ bimContext

Hundred == Double(100, 1)

\* C7: in variant A progression.value stays within 0..100 and never
\* decreases from one update to the next within a run.
C7_ProgressMonotone ==
  /\ [](variant = "A" => (DoubleLeq(Double(0, 1), progression) /\ DoubleLeq(progression, Hundred)))
  /\ [][(variant = "A" /\ runNo' = runNo) => DoubleLeq(progression, progression')]_vars

\* C8: in variant A, whenever progression.value is 100 or more, the generator
\* is done and every write of the run is in a batch whose wait has resolved,
\* and confirmed.
C8_CompletionSignal ==
  (variant = "A" /\ DoubleLeq(Hundred, progression)) =>
    /\ gen = "done"
    /\ \A k \in RunWrites : k \in flushed /\ k \in confirmed

RECURSIVE NumGroups(_)
RECURSIVE NumGroupsOf(_)
NumGroups(tree) ==
  IF tree.kind = "Map" THEN 1 + NumGroupsOf(tree.entries) ELSE 0

NumGroupsOf(entries) ==
  IF entries = <<>> THEN 0
  ELSE NumGroups(Head(entries).value) + NumGroupsOf(Tail(entries))

\* C9: in both variants a completed run over a tree with G Maps has made
\* exactly G getChildren calls, one per Map.
C9_SingleLookup ==
  (pc = "done" /\ tmpTree # NoTree) => calls.lookup = NumGroups(tmpTree)

\* C10: when a run has returned, every write it emitted has had its promise
\* resolved, has been in a batch whose wait has resolved, and is confirmed.
C10_CompleteMeansDurable ==
  pc = "done" =>
    \A k \in RunWrites : k \in completed /\ k \in flushed /\ k \in confirmed

\* C10 witness: a run has returned after at least one flush inside the loop
\* and a last batch smaller than the threshold.
C10_Witness ==
  /\ pc = "done" /\ runNo = 1
  /\ Len(emitted) > MAX_NON_SYNCHRONIZED_NODES
  /\ Len(emitted) % MAX_NON_SYNCHRONIZED_NODES # 0


Polling == pc \in {"poll", "pollFinal"}

\* Some write waited for by waitForFileSystem is not in the registry.
WaitsForUnconfirmed == \E i \in 1..Len(nodes) : nodes[i] \notin confirmed

\* C11: the wait has no timeout. While the interval runs, every unconfirmed
\* write of the batch is still in the list waited for; and as long as one of
\* them is unconfirmed, no step resolves the wait: the orchestrator stays in
\* the wait, the generator is not resumed, no write is emitted, no call is made
\* and progression.value does not change (so the final 100 is not assigned).
C11_DurabilityStall ==
  /\ [](Polling =>
          \A k \in Range(promises) : k \notin confirmed => k \in Range(nodes))
  /\ [][(Polling /\ WaitsForUnconfirmed) =>
          /\ pc' = pc
          /\ gen' = gen /\ stack' = stack
          /\ emitted' = emitted /\ promises' = promises
          /\ calls' = calls
          /\ progression' = progression]_vars

\* C11 witness: a tick has removed a confirmed write from the list and the
\* interval goes on for a write that is not confirmed.
C11_Witness ==
  /\ Polling
  /\ Len(nodes) < Len(promises)
  /\ WaitsForUnconfirmed


\* C12 as claimed: when hasProperties fails, the first run is aborted and has
\* mutated nothing in the graph, the BIMObjectContext included.
C12_NoMutation ==
  (failure = "filter" /\ runNo = 1) =>
    /\ pc = "failed"
    /\ graph = graph0 /\ attached = {}
    /\ ~bimContext

\* The step is the rejection of the hasProperties promise p.
FilterRejects(p) ==
  /\ p[1] = "hasProperties" /\ p \in pending /\ p \notin pending'
  /\ HasPropertiesFail

\* C12 amended: when hasProperties fails, the run is aborted, whatever the
\* order in which hasProperties and getContext settle: with the failure of
\* hasProperties, or with that of getContext when getContext has rejected
\* first (the run may then be over and the caller may have called again).
\* A run aborted in either way has built no tree and made no lookup, node
\* creation or attachment, and the nodes are those of the start of the run.
\* The one mutation the run may cause is the creation of the
\* BIMObjectContext by the getContext call started with the filter, which
\* may settle before or after the failure.
C12_FilterFailure ==
  /\ [](failure \in {"filter", "getContext"} =>
          /\ pc = "failed"
          /\ tmpTree = NoTree /\ stack = <<>>
          /\ calls.lookup = 0 /\ calls.create = 0 /\ calls.attach = 0
          /\ calls.getContext = 1
          /\ graph = graphAtStart
          /\ Len(emitted) = runStart)
  /\ [][\A p \in pending : FilterRejects(p) =>
          IF p[2] = runNo
          THEN /\ pc' = "failed"
               /\ failure' = IF pc = "all" THEN "filter" ELSE "getContext"
          ELSE /\ outcomes[p[2]] = "failed"
               /\ pc' = pc /\ failure' = failure /\ graph' = graph]_vars

\* C12 witness: hasProperties has failed for a referencial with items while
\* the getContext call of the run is still under way.
C12_Witness ==
  /\ failure = "filter" /\ runNo = 1
  /\ Own("getContext") \in pending
  /\ Len(referencial) > 0


CallFailed == failure \in {"lookup", "create", "attach"}

\* C13: when a lookup, create or attach call fails, the run ends with that
\* failure; from then on the run issues no lookup, create or attach call and
\* removes no node, the nodes created before the failure staying in the
\* graph; and in variant A progression.value is not 100.
C13_FailFast ==
  /\ [](CallFailed =>
          /\ pc = "failed" /\ gen = "failed"
          /\ \A k \in RunWrites : emitted[k].kind = "create" => emitted[k].node \in DOMAIN graph
          /\ variant = "A" => progression # Hundred)
  /\ [][(CallFailed /\ failure' = failure) =>
          /\ calls' = calls /\ graph' = graph /\ attached' = attached
          /\ emitted' = emitted]_vars


\* Two nodes are children of the same parent, with the same name, under the
\* same relation.
SameTriple(g, a, b) ==
  /\ g[a].parent = g[b].parent /\ g[a].name = g[b].name /\ g[a].rel = g[b].rel

Unique(g) ==
  \A a, b \in 1..Len(g) : (a # b /\ a # ContextId /\ b # ContextId) => ~SameTriple(g, a, b)

Created == {k \in RunWrites : emitted[k].kind = "create"}

\* C14: from a graph without same-named children of one parent under one
\* relation, no state of a run has two such children, and the run
\* creates each (parent, name, relation) triple at most once.
C14_Uniqueness ==
  Unique(graphAtStart) =>
    /\ Unique(graph)
    /\ \A j, k \in Created :
         SameTriple(graph, emitted[j].node, emitted[k].node) => j = k

\* C14 witness: a first run has completed, having created a node and having
\* written under a node that existed before the run.
C14_Witness ==
  /\ pc = "done" /\ runNo = 1
  /\ Created # {}
  /\ \E k \in RunWrites : emitted[k].parent \in 2..Len(graph0)


EmptyA == variant = "A" /\ referencial = <<>>

ProgressSteps ==
  { <<Double(0, 1), Double(PROGRESS_BAR_SIZE_GET_PROPS, 1)>>,
    <<Double(PROGRESS_BAR_SIZE_GET_PROPS, 1),
      Double(PROGRESS_BAR_SIZE_GET_PROPS + PROGRESS_BAR_SIZE_CREATE_TREE, 1)>>,
    <<Double(PROGRESS_BAR_SIZE_GET_PROPS + PROGRESS_BAR_SIZE_CREATE_TREE, 1), Hundred>> }

\* C15: variant A with an empty item list does not return early: it builds
\* the empty tree and calls the generator on it (one call, one lookup of the
\* children of the context), creates and attaches nothing, never enters
\* waitForFileSystem, and ends with progression.value having gone 10, 20, 100.
C15_EmptyInputA ==
  /\ [](EmptyA =>
          /\ pc \in {"start", "tree", "loop", "done"}
          /\ tmpTree \in {NoTree, EmptyMap}
          /\ calls.create = 0 /\ calls.attach = 0
          /\ Len(emitted) = runStart /\ promises = <<>> /\ nodes = <<>>
          /\ graph = graphAtStart
          /\ pc = "done" =>
               /\ tmpTree = EmptyMap /\ calls.rec = 1 /\ calls.lookup = 1
               /\ progression = Hundred)
  /\ [][(EmptyA /\ runNo' = runNo /\ progression' # progression) =>
          <<progression, progression'>> \in ProgressSteps]_vars

\* C15 witness: variant A has run to its end on an empty item list.
C15_Witness == EmptyA /\ pc = "done" /\ progression = Hundred /\ calls.rec = 1


\* The loop is in the flush of a full batch: from the batch reaching the
\* threshold to the statement after the await of waitForFileSystem.
InFlush == pc \in {"wait", "poll", "resolved"}

\* C16: while the orchestrator is in the flush of a full batch the generator
\* is suspended at its yield and takes no step: no lookup, no node creation,
\* no addChildInContext and no addBIMObject call is issued, and its position
\* in the tree does not move, until the loop asks for the next value.
C16_Backpressure ==
  /\ [](InFlush => gen = "suspended")
  /\ [][InFlush =>
          /\ calls' = calls /\ graph' = graph /\ attached' = attached
          /\ emitted' = emitted /\ stack' = stack /\ gen' \in {gen, "run"}
          /\ gen' = "run" => pc' = "loop"]_vars

\* C16 witness: the flush of a full batch is polling for a write that is not
\* confirmed yet while the generator still has entries to walk.
C16_Witness ==
  /\ pc = "poll" /\ gen = "suspended"
  /\ Len(promises) = MAX_NON_SYNCHRONIZED_NODES
  /\ \E i \in 1..Len(nodes) : nodes[i] \notin confirmed
  /\ \E f \in 1..Len(stack) :
       \/ stack[f].children.kind = "Map" /\ stack[f].i <= Len(stack[f].found)
       \/ stack[f].children.kind = "Array" /\ stack[f].i <= Len(stack[f].children.items)


\* A node named by the relations and names that lead to it from the context.
RECURSIVE FullPath(_, _)
FullPath(g, n) ==
  IF n = ContextId \/ n = NoNode THEN <<>>
  ELSE Append(FullPath(g, g[n].parent), <<g[n].rel, g[n].name>>)

NodePaths(g) == {FullPath(g, n) : n \in 2..Len(g)}

\* The group nodes of a tree, and its attachments, named the same way.
RECURSIVE GroupPaths(_, _, _)
GroupPaths(tree, path, depth) ==
  IF tree.kind # "Map" THEN {}
  ELSE UNION { LET here == Append(path, <<layout.relations[depth + 1], tree.entries[k].name>>)
               IN {here} \cup GroupPaths(tree.entries[k].value, here, depth + 1)
               : k \in 1..Len(tree.entries) }

RECURSIVE LeafPaths(_, _, _)
LeafPaths(tree, path, depth) ==
  IF tree.kind = "Array" THEN {<<path, tree.items[j].dbId>> : j \in 1..Len(tree.items)}
  ELSE IF tree.kind = "Map"
  THEN UNION { LeafPaths(tree.entries[k].value,
                         Append(path, <<layout.relations[depth + 1], tree.entries[k].name>>),
                         depth + 1) : k \in 1..Len(tree.entries) }
  ELSE {}

\* What one uninterrupted run from the graph g0 yields: the nodes of g0 and
\* the group nodes of the tree, each once, and one attachment per leaf item.
Converged(g0, tree) ==
  /\ NodePaths(graph) = NodePaths(g0) \cup GroupPaths(tree, <<>>, 0)
  /\ Cardinality(NodePaths(graph)) = Len(graph) - 1
  /\ SubSeq(graph, 1, Len(g0)) = g0
  /\ {<<FullPath(graph, a[1]), a[2]>> : a \in attached} = LeafPaths(tree, <<>>, 0)

AbortedThenRerun == runNo = 2 /\ outcomes = <<"failed">>

\* C17: a run that completes leaves the nodes of the original graph plus the
\* group nodes of the dataset, each (parent, relation, name) once, and the
\* attachments of the dataset, whether it is the first run from the original
\* graph or a run that follows one aborted by a failure after any prefix of
\* its writes: the second reuses every node the aborted run created.
C17_RerunConverges ==
  pc = "done" =>
    /\ Converged(graph0, tmpTree)
    /\ AbortedThenRerun =>
         \A k \in 1..runStart : emitted[k].kind = "create" =>
           /\ emitted[k].node \in DOMAIN graph
           /\ \A j \in Created : ~SameTriple(graph, emitted[j].node, emitted[k].node)

\* C17 witness: a run has completed after a run that was aborted once it had
\* created a node; the second run has reused that node and created another.
C17_Witness ==
  /\ pc = "done" /\ AbortedThenRerun
  /\ \E k \in 1..runStart : emitted[k].kind = "create"
  /\ Created # {}


\* The run that created the node n (0: the node was there before the runs).
CreatorOf(n) ==
  LET ws == {k \in 1..Len(emitted) : emitted[k].kind = "create" /\ emitted[k].node = n}
  IN IF ws = {} THEN 0 ELSE emitted[CHOOSE k \in ws : TRUE].run

Duplicates ==
  {<<a, b>> \in (2..Len(graph)) \X (2..Len(graph)) : a < b /\ SameTriple(graph, a, b)}

\* C18: nothing keeps two concurrent runs from creating the same child: two
\* children of one parent with the same name under the same relation can
\* exist (the witness), and when they do, the two were created by the two
\* different runs, each of which found no such child when it looked the
\* parent's children up; one run alone never makes a duplicate.
C18_DuplicateRace ==
  \A d \in Duplicates :
    /\ CreatorOf(d[1]) # 0 /\ CreatorOf(d[2]) # 0
    /\ CreatorOf(d[1]) # CreatorOf(d[2])

\* C18 witness: two children of the same parent have the same name under the
\* same relation, one created by each run.
C18_Witness ==
  \E d \in Duplicates : CreatorOf(d[1]) = 1 /\ CreatorOf(d[2]) = 2


\* The nodes of a tree: its Maps and its Arrays.
RECURSIVE TreeNodes(_)
RECURSIVE TreeNodesOf(_)
TreeNodes(tree) ==
  IF tree.kind = "Map" THEN 1 + TreeNodesOf(tree.entries)
  ELSE IF tree.kind = "Array" THEN 1 ELSE 0

TreeNodesOf(entries) ==
  IF entries = <<>> THEN 0
  ELSE TreeNodes(Head(entries).value) + TreeNodesOf(Tail(entries))

\* C19: when no call fails and every write is eventually registered by the
\* hub, the run ends, in both variants; it has then called the generator
\* function once per node of the tree, and has emitted as many writes as
\* nodes created plus leaf items, every one of them confirmed.
C19_Termination ==
  /\ <>(pc = "done")
  /\ [](pc = "done" =>
          /\ calls.rec = TreeNodes(tmpTree)
          /\ Len(emitted) = calls.create + LeafItems(tmpTree)
          /\ calls.attach = LeafItems(tmpTree)
          /\ stack = <<>>
          /\ 1..Len(emitted) \subseteq confirmed)

\* C19 witness: a run is over that walked a tree of several nodes and went
\* through a wait for the hub.
C19_Witness ==
  /\ pc = "done" /\ runNo = 1
  /\ TreeNodes(tmpTree) >= 3 /\ calls.rec = TreeNodes(tmpTree)
  /\ flushed # {} /\ flushed \subseteq confirmed


\* The dbIds of the leaf items of a tree, in the order of the walk.
RECURSIVE LeafDbIds(_)
RECURSIVE LeafDbIdsOf(_)
LeafDbIds(tree) ==
  IF tree.kind = "Array" THEN [j \in 1..Len(tree.items) |-> tree.items[j].dbId]
  ELSE LeafDbIdsOf(tree.entries)

LeafDbIdsOf(entries) ==
  IF entries = <<>> THEN <<>>
  ELSE LeafDbIds(Head(entries).value) \o LeafDbIdsOf(Tail(entries))

AttachStep ==
  /\ Len(emitted') = Len(emitted) + 1
  /\ emitted'[Len(emitted')].kind = "attach"

AttachedDbIds ==
  LET ws == SelectSeq([j \in 1..(Len(emitted) - runStart) |-> emitted[runStart + j]],
                      LAMBDA w : w.kind = "attach")
  IN [j \in 1..Len(ws) |-> ws[j].dbId]

SecondAfterComplete == runNo = 2 /\ outcomes = <<"done">> /\ pc = "done"

\* C20: the attachment of a leaf item is written without a lookup of the
\* children of its parent and at a depth for which the layout has no entry:
\* the step that emits it is the next item of the leaf, under the parent of
\* the leaf, and makes no lookup and no creation; a completed run has emitted
\* one attachment per leaf item, in the order of the lists; and a second run
\* after a completed one emits no creation but again one attachment per item.
C20_LeafAttachUnconditional ==
  /\ [][AttachStep =>
          /\ Top.children.kind = "Array"
          /\ emitted'[Len(emitted')].dbId = Top.children.items[Top.i].dbId
          /\ emitted'[Len(emitted')].parent = Top.parent
          /\ (Top.depth + 1) \notin DOMAIN layout.types
          /\ calls'.lookup = calls.lookup /\ calls'.create = calls.create
          /\ graph' = graph]_vars
  /\ [](pc = "done" /\ tmpTree # NoTree => AttachedDbIds = LeafDbIds(tmpTree))
  /\ [](SecondAfterComplete =>
          /\ Created = {}
          /\ Len(emitted) - runStart = LeafItems(tmpTree))

\* C20 witness: a second run over the graph a first run completed is over
\* and has written attachments only, for items that were attached already.
C20_Witness ==
  /\ SecondAfterComplete
  /\ LeafItems(tmpTree) >= 1
  /\ Len(AttachedDbIds) = LeafItems(tmpTree)
  /\ \A k \in RunWrites : <<emitted[k].parent, emitted[k].dbId>> \in afterRun1.attached

====
